---- MODULE Spec2Model ----
(***************************************************************************)
(* game_input: an input abstraction and rebinding layer.                   *)
(*                                                                         *)
(* The model follows the crate: Axis and Button are the two control state  *)
(* machines, Manager owns the live states (keyed by Binding), the routing  *)
(* of raw inputs to Bindings and the default changes, and drives tick.     *)
(*                                                                         *)
(* Numbers.  Axis.position is an f64; it is modelled in fixed point, in    *)
(* units of 1/Scale (Scale = 500, the divisor of Axis::tick), so that 1.0  *)
(* is Scale and a tick of m whole milliseconds moves the axis by m units.  *)
(* Rounding of f64 is not modelled.  A Duration is a record of whole       *)
(* seconds and sub-second nanoseconds; the u64 product as_secs() * 1000 is *)
(* not wrapped (the durations of the model are far below 2^64 ms).         *)
(***************************************************************************)
EXTENDS Integers, Sequences, FiniteSets, TLC

VARIABLES states, bindings, default_changes, panicked, op, hist

vars == <<states, bindings, default_changes, panicked, op, hist>>

----------------------------------------------------------------------------
(* Bounds of the model *)

NumButtons == 2
NumInputs == 2
MaxSecs == 1

(* Program constants *)

Scale == 500
MillisPerSec == 1000
NanosPerMilli == 1000000

----------------------------------------------------------------------------
(* Option<T>, HashMap<K, V> *)

None == << >>
Some(x) == << x >>
unwrap(o) == o[1]

EmptyMap == << >>
contains_key(m, k) == k \in DOMAIN m
get(m, k) == IF k \in DOMAIN m THEN Some(m[k]) ELSE None
(* Mutant: an entry that exists is kept (entry().or_insert) *)
insert_IfAbsent(m, k, v) ==
    [x \in (DOMAIN m) \cup {k} |-> IF x \in DOMAIN m THEN m[x] ELSE v]

insert(m, k, v) == [x \in (DOMAIN m) \cup {k} |-> IF x = k THEN v ELSE m[x]]

----------------------------------------------------------------------------
(* change.rs *)

Direction == {"Up", "Down"}

DirectionInto(d) == IF d = "Up" THEN 1 ELSE -1

Position(p) == [tag |-> "Position", pos |-> p]
Velocity(d) == [tag |-> "Velocity", dir |-> d]
Falling(d) == [tag |-> "Falling", dir |-> d]
ButtonChange(b) == [tag |-> "ButtonChange", pressed |-> b]

(* Duration: as_secs() * 1000 + subsec_millis() *)
Millis(delta) == delta.secs * MillisPerSec + (delta.nanos \div NanosPerMilli)

----------------------------------------------------------------------------
(* axis.rs *)

AxisDefault == [position |-> 0, velocity |-> None, falling |-> FALSE]

(* Mutant: falling is not cleared at the top *)
Axis_apply_KeepsFalling(self, change) ==
    CASE change.tag = "Position" -> [self EXCEPT !.position = change.pos]
      [] change.tag = "Velocity" -> [self EXCEPT !.velocity = Some(change.dir)]
      [] change.tag = "Falling" ->
            IF self.velocity = Some(change.dir)
            THEN [self EXCEPT !.falling = TRUE, !.velocity = None]
            ELSE [self EXCEPT !.falling = FALSE]

(* Mutant: the fall trigger leaves the velocity in place *)
Axis_apply_KeepsVelocity(self, change) ==
    LET a == [self EXCEPT !.falling = FALSE] IN
    CASE change.tag = "Position" -> [a EXCEPT !.position = change.pos]
      [] change.tag = "Velocity" -> [a EXCEPT !.velocity = Some(change.dir)]
      [] change.tag = "Falling" ->
            IF a.velocity = Some(change.dir)
            THEN [a EXCEPT !.falling = TRUE]
            ELSE a

(* Mutant: the gate is backwards, a fall starts on the opposite direction *)
Axis_apply_Backwards(self, change) ==
    LET a == [self EXCEPT !.falling = FALSE] IN
    CASE change.tag = "Position" -> [a EXCEPT !.position = change.pos]
      [] change.tag = "Velocity" -> [a EXCEPT !.velocity = Some(change.dir)]
      [] change.tag = "Falling" ->
            IF a.velocity # None /\ a.velocity # Some(change.dir)
            THEN [a EXCEPT !.falling = TRUE, !.velocity = None]
            ELSE a

Axis_apply(self, change) ==
    LET a == [self EXCEPT !.falling = FALSE] IN
    CASE change.tag = "Position" -> [a EXCEPT !.position = change.pos]
      [] change.tag = "Velocity" -> [a EXCEPT !.velocity = Some(change.dir)]
      [] change.tag = "Falling" ->
            IF a.velocity = Some(change.dir)
            THEN [a EXCEPT !.falling = TRUE, !.velocity = None]
            ELSE a

(* Mutant: an axis without velocity drifts up (unwrap_or(1.0)) *)
Axis_dx_Drifts(self) ==
    IF self.falling
    THEN IF self.position > 0 THEN -1 ELSE 1
    ELSE IF self.velocity = None THEN 1 ELSE DirectionInto(unwrap(self.velocity))

Axis_dx(self) ==
    IF self.falling
    THEN IF self.position > 0 THEN -1 ELSE 1
    ELSE IF self.velocity = None THEN 0 ELSE DirectionInto(unwrap(self.velocity))

(* Mutant: the settle test is forgotten *)
Axis_settled_Never(dx, position) == FALSE

Axis_settled(dx, position) == dx * position > 0

(* Mutant: the lower clamp is forgotten *)
Axis_clamp_NoLower(position) ==
    IF position > Scale THEN Scale ELSE position

Axis_clamp(position) ==
    IF position > Scale THEN Scale
    ELSE IF position < -Scale THEN -Scale
    ELSE position

(* Mutant: the divisor of the variant without falling, 1000: half the step *)
Axis_tick_Scale1000(self, delta) ==
    LET dx == Axis_dx(self)
        moved == self.position + (dx * Millis(delta)) \div 2
    IN  IF self.falling
        THEN IF Axis_settled(dx, moved)
             THEN [self EXCEPT !.position = 0, !.falling = FALSE]
             ELSE [self EXCEPT !.position = moved]
        ELSE [self EXCEPT !.position = Axis_clamp(moved)]

Axis_tick(self, delta) ==
    LET dx == Axis_dx(self)
        moved == self.position + dx * Millis(delta)
    IN  IF self.falling
        THEN IF Axis_settled(dx, moved)
             THEN [self EXCEPT !.position = 0, !.falling = FALSE]
             ELSE [self EXCEPT !.position = moved]
        ELSE [self EXCEPT !.position = Axis_clamp(moved)]

----------------------------------------------------------------------------
(* button.rs *)

ButtonDefault == [pressed |-> FALSE, new_event |-> FALSE]

(* Mutant: new_event is assigned the comparison, losing an earlier event *)
Button_apply_Overwrites(self, change) ==
    [pressed |-> change.pressed, new_event |-> self.pressed # change.pressed]

Button_apply(self, change) ==
    [pressed |-> change.pressed,
     new_event |-> IF self.pressed # change.pressed THEN TRUE ELSE self.new_event]

(* Mutant: tick resets the whole button *)
Button_tick_Resets(self) == ButtonDefault

Button_tick(self) == [self EXCEPT !.new_event = FALSE]

----------------------------------------------------------------------------
(* manager.rs: the tagged unions *)

Change_Axis(c) == [kind |-> "Axis", axis |-> c]
Change_Button(c) == [kind |-> "Button", button |-> c]

Binding_Axis(a) == [kind |-> "Axis", key |-> a]
Binding_Button(b) == [kind |-> "Button", key |-> b]

State_Axis(a) == [kind |-> "Axis", axis |-> a]
State_Button(b) == [kind |-> "Button", button |-> b]

----------------------------------------------------------------------------
(* The host's key types A, B, C and the values the host passes in.  A and  *)
(* B are both numbered from 1, so an axis key and a button key can be the  *)
(* same value and differ only in the Binding's kind.  Position inputs are  *)
(* within [-1.0, 1.0], as the callers of the crate are expected to supply. *)

Axes == {1}
Buttons == 1..NumButtons
Inputs == 1..NumInputs

SubsecNanos == {0, 100000000, 250000000, 250999999}
Deltas == {[secs |-> s, nanos |-> n] : s \in 0..MaxSecs, n \in SubsecNanos}

PositionInputs == {-Scale, -(Scale \div 2), 0, Scale \div 2, Scale}
AxisChanges ==
    {Position(p) : p \in PositionInputs}
    \cup {Velocity(d) : d \in Direction} \cup {Falling(d) : d \in Direction}
ButtonChanges == {ButtonChange(b) : b \in BOOLEAN}
DefaultChanges == {Change_Axis(Falling("Up")), Change_Button(ButtonChange(FALSE))}

----------------------------------------------------------------------------
(* manager.rs: the operations on the three maps *)

(* Mutant: the buttons are left out of the tick *)
Manager_tick_AxesOnly(st, delta) ==
    [b \in DOMAIN st |->
        IF st[b].kind = "Axis"
        THEN State_Axis(Axis_tick(st[b].axis, delta))
        ELSE st[b]]

Manager_tick(st, delta) ==
    [b \in DOMAIN st |->
        IF st[b].kind = "Axis"
        THEN State_Axis(Axis_tick(st[b].axis, delta))
        ELSE State_Button(Button_tick(st[b].button))]

(* The loop of Manager::tick run over the entries in a given order: each   *)
(* step ticks one entry in place (values_mut).                             *)
RECURSIVE TickInOrder(_, _, _)
TickInOrder(st, order, delta) ==
    IF order = << >>
    THEN st
    ELSE LET b == Head(order)
             ticked == IF st[b].kind = "Axis"
                       THEN State_Axis(Axis_tick(st[b].axis, delta))
                       ELSE State_Button(Button_tick(st[b].button))
         IN  TickInOrder([st EXCEPT ![b] = ticked], Tail(order), delta)

(* The match of apply_change on (state, change); "unreachable" is the     *)
(* unreachable!() arm.                                                    *)
ApplyOutcome(state, change) ==
    IF state.kind = "Axis" /\ change.kind = "Axis"
    THEN Some(State_Axis(Axis_apply(state.axis, change.axis)))
    ELSE IF state.kind = "Button" /\ change.kind = "Button"
    THEN Some(State_Button(Button_apply(state.button, change.button)))
    ELSE None

(* Mutant: the default state is inserted without the contains_key test *)
StatesAfterAxisBinding_Always(st, axis) ==
    insert(st, Binding_Axis(axis), State_Axis(AxisDefault))

StatesAfterAxisBinding(st, axis) ==
    LET binding == Binding_Axis(axis) IN
    IF ~contains_key(st, binding)
    THEN insert(st, binding, State_Axis(AxisDefault))
    ELSE st

(* Mutant: the button binding creates no state *)
StatesAfterButtonBinding_Never(st, button) == st

(* Mutant: the button binding inserts the default of the other kind *)
StatesAfterButtonBinding_AxisState(st, button) ==
    LET binding == Binding_Button(button) IN
    IF ~contains_key(st, binding)
    THEN insert(st, binding, State_Axis(AxisDefault))
    ELSE st

StatesAfterButtonBinding(st, button) ==
    LET binding == Binding_Button(button) IN
    IF ~contains_key(st, binding)
    THEN insert(st, binding, State_Button(ButtonDefault))
    ELSE st

get_binding(input) == get(bindings, input)
get_default_change(input) == get(default_changes, input)

get_axis(binding) ==
    LET val == get(states, Binding_Axis(binding)) IN
    IF val # None /\ unwrap(val).kind = "Axis" THEN Some(unwrap(val).axis) ELSE None

get_button(binding) ==
    LET val == get(states, Binding_Button(binding)) IN
    IF val # None /\ unwrap(val).kind = "Button" THEN Some(unwrap(val).button) ELSE None

(* Mutant: the new_event test is forgotten *)
get_changed_buttons_All ==
    LET found == {key \in DOMAIN states :
                    states[key].kind = "Button" /\ key.kind = "Button"}
    IN  [bind \in {key.key : key \in found} |->
            states[CHOOSE key \in found : key.key = bind].button]

(* HashMap<&B, &Button>: a function from the button keys found *)
get_changed_buttons ==
    LET found == {key \in DOMAIN states :
                    /\ states[key].kind = "Button"
                    /\ states[key].button.new_event
                    /\ key.kind = "Button"}
    IN  [bind \in {key.key : key \in found} |->
            states[CHOOSE key \in found : key.key = bind].button]

(* Mutant: a level query *)
get_button_pressed_Level(button) ==
    LET b == get_button(button) IN
    IF b = None THEN FALSE ELSE unwrap(b).pressed

get_button_pressed(button) ==
    LET b == get_button(button) IN
    IF b = None THEN FALSE ELSE unwrap(b).pressed /\ unwrap(b).new_event

----------------------------------------------------------------------------
(* History, for stating the properties; the program does not read it.      *)
(*   op    the call that produced the current state, with its arguments    *)
(*   hist  per button key: at_tick, the value of pressed right after the   *)
(*         most recent Manager::tick (FALSE before the first); flipped,    *)
(*         some apply since then changed pressed; rose, some apply since   *)
(*         then changed pressed from false to true                         *)

HistInit == [b \in Buttons |-> [at_tick |-> FALSE, flipped |-> FALSE, rose |-> FALSE]]

HistAfterApply(binding, change) ==
    IF /\ contains_key(states, binding)
       /\ states[binding].kind = "Button"
       /\ change.kind = "Button"
       /\ binding.kind = "Button"
    THEN LET was == states[binding].button.pressed
             now == change.button.pressed
         IN  [hist EXCEPT ![binding.key] =
                 [at_tick |-> @.at_tick,
                  flipped |-> @.flipped \/ (was # now),
                  rose |-> @.rose \/ (~was /\ now)]]
    ELSE hist

HistAfterTick(st) ==
    [b \in Buttons |->
        IF contains_key(st, Binding_Button(b)) /\ st[Binding_Button(b)].kind = "Button"
        THEN [at_tick |-> st[Binding_Button(b)].button.pressed,
              flipped |-> FALSE, rose |-> FALSE]
        ELSE hist[b]]

----------------------------------------------------------------------------
(* Manager::new *)

Init ==
    /\ states = EmptyMap
    /\ bindings = EmptyMap
    /\ default_changes = EmptyMap
    /\ panicked = FALSE
    /\ op = [name |-> "new"]
    /\ hist = HistInit

tick(delta) ==
    /\ ~panicked
    /\ states' = Manager_tick(states, delta)
    /\ hist' = HistAfterTick(states')
    /\ op' = [name |-> "tick", delta |-> delta]
    /\ UNCHANGED <<bindings, default_changes, panicked>>

(* Mutant: the state is unwrapped, a Binding without one is fatal *)
apply_change_Unwraps(binding, change) ==
    /\ ~panicked
    /\ IF contains_key(states, binding)
       THEN LET outcome == ApplyOutcome(states[binding], change) IN
            IF outcome # None
            THEN /\ states' = [states EXCEPT ![binding] = unwrap(outcome)]
                 /\ panicked' = FALSE
            ELSE /\ states' = states
                 /\ panicked' = TRUE
       ELSE /\ states' = states
            /\ panicked' = TRUE
    /\ hist' = HistAfterApply(binding, change)
    /\ op' = [name |-> "apply_change", binding |-> binding, change |-> change]
    /\ UNCHANGED <<bindings, default_changes>>

apply_change(binding, change) ==
    /\ ~panicked
    /\ IF contains_key(states, binding)
       THEN LET outcome == ApplyOutcome(states[binding], change) IN
            IF outcome # None
            THEN /\ states' = [states EXCEPT ![binding] = unwrap(outcome)]
                 /\ panicked' = FALSE
            ELSE /\ states' = states
                 /\ panicked' = TRUE
       ELSE /\ states' = states
            /\ panicked' = FALSE
    /\ hist' = HistAfterApply(binding, change)
    /\ op' = [name |-> "apply_change", binding |-> binding, change |-> change]
    /\ UNCHANGED <<bindings, default_changes>>

add_axis_binding(axis, input) ==
    /\ ~panicked
    /\ bindings' = insert(bindings, input, Binding_Axis(axis))
    /\ states' = StatesAfterAxisBinding(states, axis)
    /\ op' = [name |-> "add_axis_binding", key |-> axis, input |-> input]
    /\ UNCHANGED <<default_changes, panicked, hist>>

add_button_binding(button, input) ==
    /\ ~panicked
    /\ bindings' = insert(bindings, input, Binding_Button(button))
    /\ states' = StatesAfterButtonBinding(states, button)
    /\ op' = [name |-> "add_button_binding", key |-> button, input |-> input]
    /\ UNCHANGED <<default_changes, panicked, hist>>

add_default_change(change, input) ==
    /\ ~panicked
    /\ default_changes' = insert(default_changes, input, change)
    /\ op' = [name |-> "add_default_change", change |-> change, input |-> input]
    /\ UNCHANGED <<states, bindings, panicked, hist>>

----------------------------------------------------------------------------
(* The whole Manager: one axis and two buttons, as in the tests of         *)
(* manager.rs (Axes::Vertical; Buttons::Fire, Block; two raw inputs), with *)
(* changes of both kinds applied to bindings of both kinds.                *)

ManagerButtons == {1, 2}
ManagerInputs == {1, 2}
ManagerBindings ==
    {Binding_Axis(a) : a \in Axes} \cup {Binding_Button(b) : b \in ManagerButtons}
ManagerDeltas == {[secs |-> 0, nanos |-> 250000000]}
ManagerChanges ==
    {Change_Axis(Position(Scale \div 2)), Change_Axis(Velocity("Up")),
     Change_Axis(Falling("Up"))} \cup {Change_Button(c) : c \in ButtonChanges}

Next ==
    \/ \E delta \in ManagerDeltas : tick(delta)
    \/ \E binding \in ManagerBindings, change \in ManagerChanges :
            apply_change(binding, change)
    \/ \E axis \in Axes, input \in ManagerInputs : add_axis_binding(axis, input)
    \/ \E button \in ManagerButtons, input \in ManagerInputs :
            add_button_binding(button, input)

Spec == Init /\ [][Next]_vars

(* The axes alone: every axis change and every duration.                   *)

NextAxis ==
    \/ \E delta \in Deltas : tick(delta)
    \/ \E axis \in Axes, change \in AxisChanges :
            apply_change(Binding_Axis(axis), Change_Axis(change))
    \/ \E axis \in Axes, input \in Inputs : add_axis_binding(axis, input)

SpecAxis == Init /\ [][NextAxis]_vars

(* A fall left alone: while an axis is falling no change is applied, and   *)
(* the host keeps calling tick, once per frame, again and again with an    *)
(* elapsed time of at least one millisecond.                               *)

PositiveDeltas == {delta \in Deltas : Millis(delta) >= 1}
SomeFalling == \E a \in Axes : contains_key(states, Binding_Axis(a))
                                /\ states[Binding_Axis(a)].axis.falling
PositiveTick == \E delta \in PositiveDeltas : tick(delta)

NextFall ==
    \/ \E delta \in Deltas : tick(delta)
    \/ /\ ~SomeFalling
       /\ \E axis \in Axes, change \in AxisChanges :
            apply_change(Binding_Axis(axis), Change_Axis(change))
    \/ \E axis \in Axes, input \in Inputs : add_axis_binding(axis, input)

SpecFall == Init /\ [][NextFall]_vars /\ WF_vars(PositiveTick)

(* The buttons alone.                                                      *)

NextButton ==
    \/ \E delta \in Deltas : tick(delta)
    \/ \E button \in Buttons, change \in ButtonChanges :
            apply_change(Binding_Button(button), Change_Button(change))
    \/ \E button \in Buttons, input \in Inputs : add_button_binding(button, input)

SpecButton == Init /\ [][NextButton]_vars

(* The routing tables alone: bindings and default changes.                 *)

NextRouting ==
    \/ \E axis \in Axes, input \in Inputs : add_axis_binding(axis, input)
    \/ \E button \in Buttons, input \in Inputs : add_button_binding(button, input)
    \/ \E change \in DefaultChanges, input \in Inputs : add_default_change(change, input)

SpecRouting == Init /\ [][NextRouting]_vars

----------------------------------------------------------------------------
(* Properties.  AxisOf and ButtonOf read a live control of the current     *)
(* state; in an action formula the primed use reads it after the step.     *)

LiveAxis(a) == contains_key(states, Binding_Axis(a))
LiveButton(b) == contains_key(states, Binding_Button(b))
AxisOf(a) == states[Binding_Axis(a)].axis
ButtonOf(b) == states[Binding_Button(b)].button

AppliedTo(binding) == op.name = "apply_change" /\ op.binding = binding

(* C1, as stated: at every point new_event is true if and only if pressed  *)
(* differs from the value it had right after the most recent tick (or from *)
(* the initial false), so that a press followed by a release between two   *)
(* ticks leaves new_event false.                                           *)
C1_NewEventIffNetChange ==
    \A b \in Buttons :
        LiveButton(b) => (ButtonOf(b).new_event <=> (ButtonOf(b).pressed # hist[b].at_tick))

(* C1, amended: new_event is true if and only if at least one apply since  *)
(* the most recent tick changed pressed; so a net change implies new_event *)
(* but not conversely.                                                     *)
C1_NewEventIffSomeChange ==
    \A b \in Buttons :
        LiveButton(b) =>
            /\ ButtonOf(b).new_event <=> hist[b].flipped
            /\ (ButtonOf(b).pressed # hist[b].at_tick) => ButtonOf(b).new_event

(* C1, witness: a press and a release have been applied since the last     *)
(* tick: pressed is back at its value of the tick and new_event is true.   *)
C1_PressReleaseWitness ==
    \E b \in Buttons :
        /\ LiveButton(b)
        /\ AppliedTo(Binding_Button(b))
        /\ op.change = Change_Button(ButtonChange(FALSE))
        /\ hist[b].rose
        /\ ButtonOf(b).pressed = hist[b].at_tick
        /\ ButtonOf(b).new_event

(* C2: get_button_pressed(k) is true only if k is bound and some           *)
(* apply_change since the most recent tick changed its pressed from false  *)
(* to true; a tick makes it false, and it stays false over every step that *)
(* does not change the pressed value of k.                                 *)
PressedLevel(b) == LiveButton(b) /\ ButtonOf(b).pressed

C2_PressedOnlyOnRise ==
    \A b \in Buttons : get_button_pressed(b) => (LiveButton(b) /\ hist[b].rose)

C2_FalseWhileHeld ==
    \A b \in Buttons :
        /\ op'.name = "tick" => ~get_button_pressed(b)'
        /\ (~get_button_pressed(b) /\ PressedLevel(b)' = PressedLevel(b))
                => ~get_button_pressed(b)'

(* C2: get_button_pressed is edge-triggered: true only after a press since *)
(* the most recent tick (and only for a bound key), false after the next   *)
(* tick and for as long as the button stays held.                          *)
C2_EdgeTriggered == [] C2_PressedOnlyOnRise /\ [][C2_FalseWhileHeld]_vars

(* C2, witness: a button that is held after a tick, with the query false.  *)
C2_HeldWitness ==
    \E b \in Buttons :
        /\ op.name = "tick"
        /\ LiveButton(b)
        /\ ButtonOf(b).pressed
        /\ hist[b].at_tick
        /\ ~get_button_pressed(b)

(* C3: the position of every axis is within [-1.0, 1.0] (Scale units)      *)
(* after every call.                                                       *)
C3_PositionInRange ==
    \A a \in Axes :
        LiveAxis(a) => (-Scale <= AxisOf(a).position /\ AxisOf(a).position <= Scale)

(* C3, witness: a tick longer than the whole range, on an axis moving Up,  *)
(* has ended at 1.0.                                                       *)
C3_ClampedWitness ==
    \E a \in Axes :
        /\ op.name = "tick"
        /\ Millis(op.delta) > 2 * Scale
        /\ LiveAxis(a)
        /\ AxisOf(a).velocity = Some("Up")
        /\ AxisOf(a).position = Scale

(* C4: add_axis_binding and add_button_binding for a key that has a live   *)
(* state leave states as it is, whatever the raw input; for a key without  *)
(* one they add the default state of that kind and change no other entry.  *)
KeptOrCreated(binding, default) ==
    IF contains_key(states, binding)
    THEN states' = states
    ELSE /\ DOMAIN states' = DOMAIN states \cup {binding}
         /\ states'[binding] = default
         /\ \A other \in DOMAIN states : states'[other] = states[other]

C4_RebindStep ==
    /\ op'.name = "add_axis_binding"
            => KeptOrCreated(Binding_Axis(op'.key), State_Axis(AxisDefault))
    /\ op'.name = "add_button_binding"
            => KeptOrCreated(Binding_Button(op'.key), State_Button(ButtonDefault))

(* C4: rebinding never resets live state; a state is created at its        *)
(* default only when the Binding has none.                                 *)
C4_RebindKeepsState == [][C4_RebindStep]_vars

(* C4, witness: an axis that is away from its default has just been bound  *)
(* again, to a raw input other than the one it is also routed from.        *)
C4_ReboundWitness ==
    \E a \in Axes, c1, c2 \in ManagerInputs :
        /\ op = [name |-> "add_axis_binding", key |-> a, input |-> c2]
        /\ c1 # c2
        /\ get_binding(c1) = Some(Binding_Axis(a))
        /\ LiveAxis(a)
        /\ AxisOf(a).position # 0
        /\ AxisOf(a).velocity # None
        /\ \E b \in ManagerButtons : LiveButton(b) /\ ButtonOf(b).pressed

(* C5: apply(Falling(d)) on an axis whose velocity is Some(d) ends with    *)
(* falling = true, velocity = None and the position unchanged, and no      *)
(* other apply ends with falling = true.                                   *)
C5_ApplyStep ==
    \A a \in Axes :
        (/\ op'.name = "apply_change"
         /\ op'.binding = Binding_Axis(a)
         /\ op'.change.kind = "Axis"
         /\ LiveAxis(a))
        => LET change == op'.change.axis
               trigger == change.tag = "Falling" /\ AxisOf(a).velocity = Some(change.dir)
           IN  /\ trigger => /\ AxisOf(a)'.falling
                             /\ AxisOf(a)'.velocity = None
                             /\ AxisOf(a)'.position = AxisOf(a).position
               /\ AxisOf(a)'.falling => trigger

(* C5: the fall trigger is apply(Falling(d)) on velocity Some(d), and it is *)
(* the only apply that sets falling.                                       *)
C5_FallTrigger == [][C5_ApplyStep]_vars

(* C5, witness: a fall has just been triggered away from zero.             *)
C5_TriggeredWitness ==
    \E a \in Axes, d \in Direction :
        /\ AppliedTo(Binding_Axis(a))
        /\ op.change = Change_Axis(Falling(d))
        /\ LiveAxis(a)
        /\ AxisOf(a).falling
        /\ AxisOf(a).velocity = None
        /\ AxisOf(a).position # 0

(* C6: apply(Falling(d)) on an axis whose velocity is not Some(d), an axis *)
(* that is falling included, leaves falling, velocity and position as they *)
(* were.                                                                   *)
C6_UnmatchedFallStep ==
    \A a \in Axes :
        (/\ op'.name = "apply_change"
         /\ op'.binding = Binding_Axis(a)
         /\ op'.change.kind = "Axis"
         /\ op'.change.axis.tag = "Falling"
         /\ LiveAxis(a)
         /\ AxisOf(a).velocity # Some(op'.change.axis.dir))
        => AxisOf(a)' = AxisOf(a)

(* C6: a fall request that does not match the velocity is a no-op.         *)
C6_UnmatchedFallIsNoOp == [][C6_UnmatchedFallStep]_vars

(* C7: a tick of a falling axis at p # 0 whose step is at least |p| ends   *)
(* at position 0 with falling = false; a smaller step ends at              *)
(* p - sign(p) * step with falling still true.                             *)
Abs(x) == IF x < 0 THEN -x ELSE x
Sign(x) == IF x > 0 THEN 1 ELSE IF x < 0 THEN -1 ELSE 0

C7_FallingTickStep ==
    \A a \in Axes :
        (/\ op'.name = "tick"
         /\ LiveAxis(a)
         /\ AxisOf(a).falling
         /\ AxisOf(a).position # 0)
        => LET p == AxisOf(a).position
               step == Millis(op'.delta)
           IN  IF step >= Abs(p)
               THEN AxisOf(a)'.position = 0 /\ ~AxisOf(a)'.falling
               ELSE AxisOf(a)'.position = p - Sign(p) * step /\ AxisOf(a)'.falling

(* C7: a falling tick that crosses or exactly reaches zero settles the     *)
(* axis; a shorter one moves it toward zero and keeps it falling.          *)
C7_FallingSettle == [][C7_FallingTickStep]_vars

(* C8: apply(v) ends with pressed = v, raises new_event when v differs     *)
(* from pressed and leaves new_event as it was otherwise; tick ends with   *)
(* new_event = false and pressed unchanged.                                *)
C8_ButtonStep ==
    \A b \in Buttons :
        LiveButton(b) =>
            /\ (/\ op'.name = "apply_change"
                /\ op'.binding = Binding_Button(b)
                /\ op'.change.kind = "Button")
               => LET v == op'.change.button.pressed IN
                  /\ ButtonOf(b)'.pressed = v
                  /\ ButtonOf(b).pressed # v => ButtonOf(b)'.new_event
                  /\ ButtonOf(b).pressed = v
                        => ButtonOf(b)'.new_event = ButtonOf(b).new_event
            /\ op'.name = "tick"
               => /\ ~ButtonOf(b)'.new_event
                  /\ ButtonOf(b)'.pressed = ButtonOf(b).pressed

(* C8: the transitions of a Button under apply and tick.                   *)
C8_ButtonTransitions == [][C8_ButtonStep]_vars

(* C8, witness: the value a held button already had after a tick has been  *)
(* applied again, and no event is raised.                                  *)
C8_ReapplyWitness ==
    \E b \in Buttons :
        /\ AppliedTo(Binding_Button(b))
        /\ op.change = Change_Button(ButtonChange(TRUE))
        /\ LiveButton(b)
        /\ hist[b].at_tick
        /\ ButtonOf(b).pressed
        /\ ~ButtonOf(b).new_event

(* C9: get_changed_buttons() holds exactly the button keys with a live     *)
(* Button whose new_event is true, each with its Button, and is empty      *)
(* right after a Manager::tick.                                            *)
C9_ChangedButtonsExact ==
    /\ DOMAIN get_changed_buttons
            = {b \in ManagerButtons : LiveButton(b) /\ ButtonOf(b).new_event}
    /\ \A b \in DOMAIN get_changed_buttons : get_changed_buttons[b] = ButtonOf(b)
    /\ op.name = "tick" => DOMAIN get_changed_buttons = {}

(* C9, witness: of an axis and two buttons, all live under the same key    *)
(* values, exactly one button is reported.                                 *)
C9_OneOfThreeWitness ==
    /\ \A a \in Axes : LiveAxis(a)
    /\ \A b \in ManagerButtons : LiveButton(b)
    /\ Axes \cap ManagerButtons # {}
    /\ Cardinality(DOMAIN get_changed_buttons) = 1
    /\ \E b \in ManagerButtons : ButtonOf(b).pressed /\ ~ButtonOf(b).new_event

(* C10: a tick of an axis with velocity = None and falling = false leaves  *)
(* its position, velocity and falling unchanged, for every duration.       *)
C10_IdleTickStep ==
    \A a \in Axes :
        (/\ op'.name = "tick"
         /\ LiveAxis(a)
         /\ AxisOf(a).velocity = None
         /\ ~AxisOf(a).falling)
        => AxisOf(a)' = AxisOf(a)

C11_AbsentStep ==
    (op'.name = "apply_change" /\ ~contains_key(states, op'.binding))
    => /\ ~panicked'
       /\ states' = states
       /\ bindings' = bindings
       /\ default_changes' = default_changes

C11_AbsentBindingInert == [][C11_AbsentStep]_vars

(* C11, witness: an axis change has been applied to a button Binding that  *)
(* has no state, beside a live control, and nothing failed.                *)
C11_AbsentWitness ==
    /\ op.name = "apply_change"
    /\ op.binding.kind = "Button"
    /\ op.change.kind = "Axis"
    /\ ~contains_key(states, op.binding)
    /\ DOMAIN states # {}
    /\ ~panicked

(* C12: every entry of states has the kind of its key; get_axis(k) and     *)
(* get_button(k) are None exactly as long as k has not been bound as that  *)
(* kind; a change of the kind of its Binding never reaches the fatal arm.  *)
C12_KindsAgree ==
    /\ \A b \in DOMAIN states : states[b].kind = b.kind
    /\ op.name = "new" => DOMAIN states = {}

C12_ProjectionStep ==
    /\ \A a \in Axes :
        /\ (op'.name = "add_axis_binding" /\ op'.key = a) => get_axis(a)' # None
        /\ get_axis(a) # None => get_axis(a)' # None
        /\ (get_axis(a) = None /\ get_axis(a)' # None)
                => (op'.name = "add_axis_binding" /\ op'.key = a)
    /\ \A b \in ManagerButtons :
        /\ (op'.name = "add_button_binding" /\ op'.key = b) => get_button(b)' # None
        /\ get_button(b) # None => get_button(b)' # None
        /\ (get_button(b) = None /\ get_button(b)' # None)
                => (op'.name = "add_button_binding" /\ op'.key = b)
    /\ (op'.name = "apply_change" /\ op'.binding.kind = op'.change.kind) => ~panicked'

(* C12: kind consistency of states and what follows from it.               *)
C12_KindConsistency == [] C12_KindsAgree /\ [][C12_ProjectionStep]_vars

(* C12, witness: an axis and a button are live under the same key value,   *)
(* and a change of the Binding's kind has just been applied.               *)
C12_SameKeyWitness ==
    \E k \in Axes \cap ManagerButtons :
        /\ get_axis(k) # None
        /\ get_button(k) # None
        /\ op.name = "apply_change"
        /\ op.binding = Binding_Button(k)
        /\ op.change.kind = "Button"
        /\ ~panicked

(* C13: Manager::tick keeps the key set, and its result is the result of   *)
(* the loop run over the entries in any order, each entry being the single *)
(* Axis::tick(delta) or Button::tick() of that entry alone; bindings and   *)
(* default_changes are unchanged.                                          *)
Orders(keys) ==
    {order \in [1..Cardinality(keys) -> keys] :
        \A i, j \in 1..Cardinality(keys) : order[i] = order[j] => i = j}

C13_TickStep ==
    op'.name = "tick" =>
        /\ DOMAIN states' = DOMAIN states
        /\ \A b \in DOMAIN states :
              IF states[b].kind = "Axis"
              THEN states'[b] = State_Axis(Axis_tick(states[b].axis, op'.delta))
              ELSE states'[b] = State_Button(Button_tick(states[b].button))
        /\ \A order \in Orders(DOMAIN states) :
              TickInOrder(states, order, op'.delta) = states'
        /\ bindings' = bindings
        /\ default_changes' = default_changes

C13_TickEveryControlOnce == [][C13_TickStep]_vars

(* C13, witness: a tick has run over three live controls, one of them a    *)
(* moving axis and one a held button.                                      *)
C13_TickedWitness ==
    /\ op.name = "tick"
    /\ Cardinality(DOMAIN states) = 3
    /\ \E a \in Axes : LiveAxis(a) /\ AxisOf(a).velocity # None /\ AxisOf(a).position # 0
    /\ \E b \in ManagerButtons : LiveButton(b) /\ ButtonOf(b).pressed

(* C14: get_binding(c) is the Binding of the most recent add call for c,   *)
(* None if there was none: an add call for c routes c to its Binding and   *)
(* changes the routing of no other raw input, and no other call changes    *)
(* the routing at all.                                                     *)
C14_RoutingStep ==
    /\ op'.name = "add_axis_binding"
            => /\ get(bindings', op'.input) = Some(Binding_Axis(op'.key))
               /\ \A c \in Inputs \ {op'.input} : get_binding(c)' = get_binding(c)
    /\ op'.name = "add_button_binding"
            => /\ get(bindings', op'.input) = Some(Binding_Button(op'.key))
               /\ \A c \in Inputs \ {op'.input} : get_binding(c)' = get_binding(c)
    /\ op'.name \notin {"add_axis_binding", "add_button_binding"}
            => \A c \in Inputs : get_binding(c)' = get_binding(c)

C14_NoneAtFirst == op.name = "new" => \A c \in Inputs : get_binding(c) = None

C14_RoutingTable == [] C14_NoneAtFirst /\ [][C14_RoutingStep]_vars

(* C14, witness: two raw inputs route to the same axis, the second one     *)
(* since the last call, and a button that a raw input was routed to before *)
(* is routed from no raw input any more.                                   *)
C14_SharedWitness ==
    \E a \in Axes, c1, c2 \in Inputs, b \in Buttons :
        /\ c1 # c2
        /\ op = [name |-> "add_axis_binding", key |-> a, input |-> c2]
        /\ get_binding(c1) = Some(Binding_Axis(a))
        /\ get_binding(c2) = Some(Binding_Axis(a))
        /\ LiveButton(b)
        /\ \A c \in Inputs : get_binding(c) # Some(Binding_Button(b))

(* C15: a tick of an axis that is not falling sets position to             *)
(* clamp(position + dx * delta_ms / 500, -1.0, 1.0), dx being +1 for Up,   *)
(* -1 for Down and 0 for None, and leaves velocity and falling unchanged.  *)
Clamped(x, lo, hi) == IF x < lo THEN lo ELSE IF x > hi THEN hi ELSE x

C15_NonFallingTickStep ==
    \A a \in Axes :
        (op'.name = "tick" /\ LiveAxis(a) /\ ~AxisOf(a).falling)
        => LET dx == CASE AxisOf(a).velocity = Some("Up") -> 1
                       [] AxisOf(a).velocity = Some("Down") -> -1
                       [] AxisOf(a).velocity = None -> 0
               ms == op'.delta.secs * 1000 + op'.delta.nanos \div 1000000
           IN  /\ AxisOf(a)'.position = Clamped(AxisOf(a).position + dx * ms, -Scale, Scale)
               /\ AxisOf(a)'.velocity = AxisOf(a).velocity
               /\ AxisOf(a)'.falling = AxisOf(a).falling

C15_NonFallingTick == [][C15_NonFallingTickStep]_vars

(* C15, witness: 100 ms with velocity Up have ended at 0.2.                *)
C15_TenthWitness ==
    \E a \in Axes :
        /\ op = [name |-> "tick", delta |-> [secs |-> 0, nanos |-> 100000000]]
        /\ LiveAxis(a)
        /\ AxisOf(a).velocity = Some("Up")
        /\ ~AxisOf(a).falling
        /\ AxisOf(a).position * 5 = Scale

(* C16: apply(Position(p)) ends with position = p, falling = false and the *)
(* velocity unchanged; apply(Velocity(d)) ends with velocity = Some(d),    *)
(* falling = false and the position unchanged.                             *)
C16_NonFallApplyStep ==
    \A a \in Axes :
        (/\ op'.name = "apply_change"
         /\ op'.binding = Binding_Axis(a)
         /\ op'.change.kind = "Axis"
         /\ LiveAxis(a))
        => LET change == op'.change.axis IN
           /\ change.tag = "Position"
                => AxisOf(a)' = [position |-> change.pos,
                                 velocity |-> AxisOf(a).velocity, falling |-> FALSE]
           /\ change.tag = "Velocity"
                => AxisOf(a)' = [position |-> AxisOf(a).position,
                                 velocity |-> Some(change.dir), falling |-> FALSE]

C16_NonFallChangeCancelsFall == [][C16_NonFallApplyStep]_vars

(* C16, witness: a position has been applied to an axis that has a         *)
(* velocity, and the velocity is still there.                              *)
C16_PositionWitness ==
    \E a \in Axes, p \in PositionInputs \ {0} :
        /\ AppliedTo(Binding_Axis(a))
        /\ op.change = Change_Axis(Position(p))
        /\ LiveAxis(a)
        /\ AxisOf(a) = [position |-> p, velocity |-> Some("Down"), falling |-> FALSE]

(* C18: an axis that is falling has no velocity.                           *)
C18_FallingHasNoVelocity ==
    \A a \in Axes : (LiveAxis(a) /\ AxisOf(a).falling) => AxisOf(a).velocity = None

(* C18, witness: an axis is still falling after a tick.                    *)
C18_StillFallingWitness ==
    \E a \in Axes :
        /\ op.name = "tick"
        /\ LiveAxis(a)
        /\ AxisOf(a).falling
        /\ AxisOf(a).position # 0

(* C17: a tick of a falling axis never increases |position| and never      *)
(* leaves the position on the other side of zero; a falling axis that is   *)
(* left alone, with ticks of at least 1 ms, eventually is at 0.0 with      *)
(* falling = false, and further ticks keep it there.                       *)
AtRest == [position |-> 0, velocity |-> None, falling |-> FALSE]

C17_FallingTickStep ==
    \A a \in Axes :
        (op'.name = "tick" /\ LiveAxis(a))
        => /\ AxisOf(a).falling
                => /\ Abs(AxisOf(a)'.position) <= Abs(AxisOf(a).position)
                   /\ AxisOf(a)'.position * AxisOf(a).position >= 0
           /\ (AxisOf(a).falling /\ ~AxisOf(a)'.falling) => AxisOf(a)' = AtRest
           /\ AxisOf(a) = AtRest => AxisOf(a)' = AtRest

C17_FallEnds ==
    \A a \in Axes :
        (LiveAxis(a) /\ AxisOf(a).falling) ~> (LiveAxis(a) /\ AxisOf(a) = AtRest)

C17_FallTowardZeroAndEnds == [][C17_FallingTickStep]_vars /\ C17_FallEnds

(* C17, witness: a tick of at least 1 ms has moved a falling axis, which   *)
(* is still on its way to zero.                                            *)
C17_MidFallWitness ==
    \E a \in Axes :
        /\ op.name = "tick"
        /\ Millis(op.delta) >= 1
        /\ LiveAxis(a)
        /\ AxisOf(a).falling
        /\ AxisOf(a).position # 0
        /\ Abs(AxisOf(a).position) < Scale

(* C19: every Binding that a raw input routes to has a live state, and no   *)
(* operation removes an entry of states: a state outlives the raw inputs   *)
(* that routed to its Binding.                                             *)
C19_RoutedIsLive ==
    \A c \in DOMAIN bindings : contains_key(states, bindings[c])

C19_StatesOnlyGrow == DOMAIN states \subseteq DOMAIN states'

C19_StatesSurvive == [] C19_RoutedIsLive /\ [][C19_StatesOnlyGrow]_vars

(* C19, witness: a button was pressed through its Binding, its only raw    *)
(* input has been rebound elsewhere, and the pressed state is still live.  *)
C19_OrphanWitness ==
    \E b \in ManagerButtons :
        /\ op.name \in {"add_axis_binding", "add_button_binding"}
        /\ LiveButton(b)
        /\ ButtonOf(b).pressed
        /\ \A c \in DOMAIN bindings : bindings[c] # Binding_Button(b)

(* C20: for every raw input that has both a binding and a default change,  *)
(* applying the default change to the Binding the input routes to does not *)
(* reach the kind-mismatch arm: the stored default is of the Binding's     *)
(* kind.                                                                   *)
C20_DefaultMatchesBinding ==
    \A c \in DOMAIN bindings \cap DOMAIN default_changes :
        LET binding == unwrap(get_binding(c))
            change == unwrap(get_default_change(c))
        IN  /\ contains_key(states, binding)
            /\ ApplyOutcome(states[binding], change) # None
            /\ change.kind = binding.kind

====
